---- MODULE Spec2Model ----
(***************************************************************************)
(* A model of src/app.py: a FastAPI service with three routes              *)
(* (create_user, get_users, delete_user) over one SQLite table "users",    *)
(* each request running inside the get_db session scope.                   *)
(*                                                                         *)
(* A request is split at its database statements: the SELECT of the        *)
(* handler, the flush/commit of the handler, and the teardown of get_db.   *)
(* Spec interleaves the requests at these points (several workers over     *)
(* the same database file); SeqSpec serves one request at a time.          *)
(***************************************************************************)
EXTENDS Integers, FiniteSets, Sequences, TLC

\* ------------------------------------------------------------------ bounds
\* requests served one after the other (SeqSpec)
NumRequests == 4
\* requests served at the same time (Spec, FairSpec)
MaxConcurrent == 2
\* largest id a DELETE names
MaxUserId == 2

Requests == 1..NumRequests

Usernames == {"alice", "bob"}
Passwords == {"p1"}
ExtraValues == {"admin"}

\* ------------------------------------------------------------ request data
\* The JSON bodies of POST /create_user in the model: the bodies that carry
\* exactly the two fields of UserCreate, and each of them with one field
\* dropped or with one undeclared field added.
ValidBodies == [username : Usernames, password : Passwords]

DropField(b, f) == [g \in (DOMAIN b) \ {f} |-> b[g]]

AddRole(b, v) == [g \in (DOMAIN b) \cup {"role"} |-> IF g = "role" THEN v ELSE b[g]]

Bodies ==
  ValidBodies
  \cup { DropField(b, f) : b \in ValidBodies, f \in {"username", "password"} }
  \cup { AddRole(b, v) : b \in ValidBodies, v \in ExtraValues }

NoBody == [f \in {} |-> ""]

\* ids a DELETE may name
UserIds == 1..MaxUserId

HttpRequests ==
  { [method |-> "POST", body |-> b, user_id |-> 0] : b \in Bodies }
  \cup { [method |-> "GET", body |-> NoBody, user_id |-> 0] }
  \cup { [method |-> "DELETE", body |-> NoBody, user_id |-> i] : i \in UserIds }

NoRequest == [method |-> "NONE", body |-> NoBody, user_id |-> 0]

\* -------------------------------------------------------------- UserCreate
\* class UserCreate(BaseModel): username: str; password: str
\* Both fields are required; the model sets no `extra` policy, so pydantic's
\* default applies and undeclared fields are dropped, not rejected.
UserCreateFields == {"username", "password"}

MissingFields_NoPassword(b) == {"username"} \ DOMAIN b

MissingFields(b) == UserCreateFields \ DOMAIN b

UserCreate(b) == [f \in UserCreateFields |-> b[f]]

\* ------------------------------------------------------------ UserResponse
\* class UserResponse(BaseModel): id: int; username: str
UserResponse(row) == [id |-> row.id, username |-> row.username]

\* create_user declares no response_model: the returned ORM object is
\* encoded with every loaded column attribute.
jsonable_encoder(row) ==
  [id |-> row.id, username |-> row.username, password |-> row.password]

\* ------------------------------------------------------------- users table
SetMax(S) == CHOOSE m \in S : \A x \in S : x <= m

\* id = Column(Integer, Sequence("user_id_seq"), primary_key=True): SQLite has
\* no sequences; an INTEGER PRIMARY KEY without AUTOINCREMENT is the rowid,
\* assigned as one more than the largest rowid now in the table.
NextId(tbl) == IF tbl = {} THEN 1 ELSE SetMax({x.id : x \in tbl}) + 1

\* username = Column(String, unique=True, index=True)
UniqueViolation_Off(tbl, u) == FALSE

UniqueViolation(tbl, u) == \E x \in tbl : x.username = u

\* db.query(User).filter(User.username == ...).first()
FindByUsername_Blind(tbl, u) == {}

FindByUsername(tbl, u) == {x \in tbl : x.username = u}

\* db.query(User).filter(User.id == user_id).first()
FindById_Any(tbl, i) == tbl

FindById(tbl, i) == {x \in tbl : x.id = i}

\* db.delete(user); db.commit(): DELETE FROM users WHERE id = ?
DeleteRow_Keep(tbl, i) == tbl

DeleteRow_All(tbl, i) == {}

DeleteRow(tbl, i) == {x \in tbl : x.id # i}

NoUser == [id |-> 0, username |-> "", password |-> ""]

First(S) == IF S = {} THEN NoUser ELSE CHOOSE x \in S : TRUE

\* ------------------------------------------------------------------- state
VARIABLES
  users,      \* the rows of table "users"
  pc,         \* where each request is
  req,        \* the HTTP request being served
  db,         \* the session get_db handed to the request
  user,       \* the handler's local `user` / `existing_user`
  status,     \* HTTP status of the response (0: none yet)
  detail,     \* the error detail of the response
  payload,    \* the records of the response body
  committed,  \* get_db's own db.commit() ran
  stmts,      \* SQL statements the request has executed
  before      \* the table when the request arrived

vars == <<users, pc, req, db, user, status, detail, payload, committed,
          stmts, before>>

Init ==
  /\ users = {}
  /\ pc = [r \in Requests |-> "idle"]
  /\ req = [r \in Requests |-> NoRequest]
  /\ db = [r \in Requests |-> "none"]
  /\ user = [r \in Requests |-> NoUser]
  /\ status = [r \in Requests |-> 0]
  /\ detail = [r \in Requests |-> ""]
  /\ payload = [r \in Requests |-> {}]
  /\ committed = [r \in Requests |-> FALSE]
  /\ stmts = [r \in Requests |-> 0]
  /\ before = [r \in Requests |-> {}]

InFlight(r) == pc[r] \notin {"idle", "done"}

\* Requests are numbered in their order of arrival.
Arrives(r) == pc[r] = "idle" /\ (IF r = 1 THEN TRUE ELSE pc[r - 1] # "idle")

\* ----------------------------------------------------------------- actions
\* A request arrives: the framework resolves Depends(get_db), which runs
\* get_db up to its yield (db = SessionLocal()), then validates the body
\* against UserCreate; a validation error never enters the handler.
Dispatch(r, q) ==
  /\ req' = [req EXCEPT ![r] = q]
  /\ db' = [db EXCEPT ![r] = "active"]
  /\ before' = [before EXCEPT ![r] = users]
  /\ IF q.method = "POST" /\ MissingFields(q.body) # {}
       THEN /\ status' = [status EXCEPT ![r] = 422]
            /\ detail' = [detail EXCEPT ![r] = "field required"]
            /\ pc' = [pc EXCEPT ![r] = "exit"]
       ELSE /\ pc' = [pc EXCEPT ![r] = "handler"]
            /\ UNCHANGED <<status, detail>>
  /\ UNCHANGED <<users, user, payload, committed, stmts>>

\* Up to MaxConcurrent requests, overlapping in any way.
Receive(r) ==
  /\ Arrives(r)
  /\ r <= MaxConcurrent
  /\ \E q \in HttpRequests : Dispatch(r, q)

\* One request at a time.
ReceiveSeq(r) ==
  /\ Arrives(r)
  /\ \A s \in Requests : ~InFlight(s)
  /\ \E q \in HttpRequests : Dispatch(r, q)

\* create_user, up to the existence check.
create_user_check(r) ==
  /\ pc[r] = "handler"
  /\ req[r].method = "POST"
  /\ LET user_create == UserCreate(req[r].body)
         existing_user == FindByUsername(users, user_create.username)
     IN /\ stmts' = [stmts EXCEPT ![r] = @ + 1]
        /\ IF existing_user # {}
             THEN /\ status' = [status EXCEPT ![r] = 400]
                  /\ detail' = [detail EXCEPT ![r] = "Username already registered"]
                  /\ pc' = [pc EXCEPT ![r] = "exit"]
             ELSE /\ pc' = [pc EXCEPT ![r] = "insert"]
                  /\ UNCHANGED <<status, detail>>
  /\ UNCHANGED <<users, req, db, user, payload, committed, before>>

\* create_user: with db: add, commit, refresh; return user.
\* The INSERT fails on the unique index of username (IntegrityError, which
\* no handler catches: a 500); leaving `with db` closes the session either way.
create_user_insert(r) ==
  /\ pc[r] = "insert"
  /\ LET user_create == UserCreate(req[r].body)
         row == [id |-> NextId(users), username |-> user_create.username,
                 password |-> user_create.password]
     IN /\ stmts' = [stmts EXCEPT ![r] = @ + 1]
        /\ db' = [db EXCEPT ![r] = "closed"]
        /\ IF UniqueViolation(users, user_create.username)
             THEN /\ status' = [status EXCEPT ![r] = 500]
                  /\ detail' = [detail EXCEPT ![r] = "Internal Server Error"]
                  /\ UNCHANGED <<users, user, payload>>
             ELSE /\ users' = users \cup {row}
                  /\ user' = [user EXCEPT ![r] = row]
                  /\ status' = [status EXCEPT ![r] = 200]
                  /\ payload' = [payload EXCEPT ![r] = {jsonable_encoder(row)}]
                  /\ UNCHANGED detail
  /\ pc' = [pc EXCEPT ![r] = "exit"]
  /\ UNCHANGED <<req, committed, before>>

\* get_users: db.query(User).all(), each row through UserResponse.
get_users(r) ==
  /\ pc[r] = "handler"
  /\ req[r].method = "GET"
  /\ stmts' = [stmts EXCEPT ![r] = @ + 1]
  /\ status' = [status EXCEPT ![r] = 200]
  /\ payload' = [payload EXCEPT ![r] = {UserResponse(x) : x \in users}]
  /\ pc' = [pc EXCEPT ![r] = "exit"]
  /\ UNCHANGED <<users, req, db, user, detail, committed, before>>

\* delete_user, up to `if user:`.
delete_user_find(r) ==
  /\ pc[r] = "handler"
  /\ req[r].method = "DELETE"
  /\ LET found == FindById(users, req[r].user_id)
     IN /\ stmts' = [stmts EXCEPT ![r] = @ + 1]
        /\ IF found # {}
             THEN /\ user' = [user EXCEPT ![r] = First(found)]
                  /\ pc' = [pc EXCEPT ![r] = "delete"]
                  /\ UNCHANGED <<status, detail>>
             ELSE /\ status' = [status EXCEPT ![r] = 404]
                  /\ detail' = [detail EXCEPT ![r] = "User not found"]
                  /\ pc' = [pc EXCEPT ![r] = "exit"]
                  /\ UNCHANGED user
  /\ UNCHANGED <<users, req, db, payload, committed, before>>

\* delete_user: with db: delete, commit; return user (through UserResponse).
\* A DELETE that matches no row only warns; the object loaded before is returned.
delete_user_commit(r) ==
  /\ pc[r] = "delete"
  /\ stmts' = [stmts EXCEPT ![r] = @ + 1]
  /\ users' = DeleteRow(users, user[r].id)
  /\ db' = [db EXCEPT ![r] = "closed"]
  /\ status' = [status EXCEPT ![r] = 200]
  /\ payload' = [payload EXCEPT ![r] = {UserResponse(user[r])}]
  /\ pc' = [pc EXCEPT ![r] = "exit"]
  /\ UNCHANGED <<req, user, detail, committed, before>>

\* get_db after its yield: the handler's exception is thrown in at the yield,
\* skipping db.commit(); `finally: db.close()` runs on both paths.
\* Nothing is pending in the session here: the commit writes no row.
CommitsOnExit(st) == st = 200

ClosesOnExit_OnlyOnSuccess(st) == st = 200

ClosesOnExit(st) == TRUE

get_db_exit(r) ==
  /\ pc[r] = "exit"
  /\ committed' = [committed EXCEPT ![r] = CommitsOnExit(status[r])]
  /\ db' = [db EXCEPT ![r] = IF ClosesOnExit(status[r]) THEN "closed" ELSE @]
  /\ pc' = [pc EXCEPT ![r] = "done"]
  /\ UNCHANGED <<users, req, user, status, detail, payload, stmts, before>>

Step(r) ==
  \/ create_user_check(r)
  \/ create_user_insert(r)
  \/ get_users(r)
  \/ delete_user_find(r)
  \/ delete_user_commit(r)
  \/ get_db_exit(r)

Next == \E r \in Requests : Receive(r) \/ Step(r)

SeqNext == \E r \in Requests : ReceiveSeq(r) \/ Step(r)

Spec == Init /\ [][Next]_vars

SeqSpec == Init /\ [][SeqNext]_vars

\* Every request that has arrived is run to the end of its scope.
FairSpec == Init /\ [][Next]_vars /\ \A r \in Requests : WF_vars(Step(r))

\* ------------------------------------------------------------ observations
Done(r) == pc[r] = "done"

Method(r) == req[r].method

\* the body carries both fields UserCreate declares
Complete(b) == {"username", "password"} \subseteq DOMAIN b

HasExtra(b) == (DOMAIN b) \ {"username", "password"} # {}

IsCreate(r) == Method(r) = "POST" /\ Complete(req[r].body)

UsernamesOf(tbl) == {x.username : x \in tbl}

IdsOf(tbl) == {x.id : x \in tbl}

\* SeqSpec: the table as request r left it, which the next request finds.
After(r) ==
  IF r < NumRequests
    THEN (IF pc[r + 1] # "idle" THEN before[r + 1] ELSE users)
    ELSE users

Created(r) == {s \in 1..(r - 1) : Method(s) = "POST" /\ status[s] = 200}

Deleted(r) == {s \in 1..(r - 1) : Method(s) = "DELETE" /\ status[s] = 200}

\* ------------------------------------------------------------------ claims

\* C1 (as claimed): served one at a time, a create whose username is not in
\* the table succeeds with an id strictly greater than the id of every
\* earlier successful create, deleted since or not.
C1_FreshCreateIdAboveAllEarlier ==
  \A r \in Requests :
    (Done(r) /\ IsCreate(r) /\ req[r].body.username \notin UsernamesOf(before[r]))
    => /\ status[r] = 200
       /\ \A s \in Created(r) : \A x \in payload[r], y \in payload[s] : x.id > y.id

\* C2 (as claimed): no response record of create_user, get_users or
\* delete_user carries a field other than id and username.
C2_ResponsesOmitPassword ==
  \A r \in Requests : \A x \in payload[r] : DOMAIN x \subseteq {"id", "username"}

\* C3: served one at a time, a create whose username is already in the table
\* ends with 400 "Username already registered", returns no record and leaves
\* the table as the request found it.
C3_DuplicateCreateRejected ==
  \A r \in Requests :
    (Done(r) /\ IsCreate(r) /\ req[r].body.username \in UsernamesOf(before[r]))
    => /\ status[r] = 400
       /\ detail[r] = "Username already registered"
       /\ payload[r] = {}
       /\ After(r) = before[r]

C3_Witness ==
  \E r \in Requests :
    /\ Done(r) /\ IsCreate(r) /\ status[r] = 400
    /\ req[r].body.username \in UsernamesOf(before[r])
    /\ After(r) = before[r]

\* C4 (as claimed): a create body with a missing required field or with an
\* extra field is rejected with a validation error before any statement is
\* executed, leaving the table unchanged.
C4_MissingOrExtraRejected ==
  \A r \in Requests :
    (Method(r) = "POST" /\ (~Complete(req[r].body) \/ HasExtra(req[r].body)))
    => /\ status[r] = 422
       /\ stmts[r] = 0
       /\ pc[r] \in {"exit", "done"}
       /\ Done(r) => After(r) = before[r]

\* C4 (amended): a create body with a missing required field is rejected with
\* a validation error before any statement is executed, leaving the table
\* unchanged; a body with both required fields and an extra field is not
\* rejected: it is served as the same body without the extra field.
C4_MissingRejectedExtraIgnored ==
  \A r \in Requests :
    /\ (Method(r) = "POST" /\ ~Complete(req[r].body))
       => /\ status[r] = 422
          /\ stmts[r] = 0
          /\ pc[r] \in {"exit", "done"}
          /\ Done(r) => After(r) = before[r]
    /\ (Done(r) /\ IsCreate(r) /\ HasExtra(req[r].body))
       => /\ status[r] = (IF req[r].body.username \in UsernamesOf(before[r])
                            THEN 400 ELSE 200)
          /\ stmts[r] > 0
          /\ status[r] = 200 =>
               After(r) \ before[r] =
                 {[id |-> x.id, username |-> req[r].body.username,
                   password |-> req[r].body.password] : x \in payload[r]}

C4_Witness ==
  /\ \E r \in Requests :
       Done(r) /\ Method(r) = "POST" /\ ~Complete(req[r].body) /\ before[r] # {}
         /\ status[r] = 422
  /\ \E r \in Requests :
       Done(r) /\ IsCreate(r) /\ HasExtra(req[r].body) /\ status[r] = 200

\* C5: served one at a time, get_users after N successful creates and M
\* successful deletes returns N - M records with pairwise distinct ids.
C5_ListCount ==
  \A r \in Requests :
    (Done(r) /\ Method(r) = "GET")
    => /\ Cardinality(payload[r]) = Cardinality(Created(r)) - Cardinality(Deleted(r))
       /\ \A x, y \in payload[r] : x.id = y.id => x = y

C5_Witness ==
  \E r \in Requests :
    /\ Done(r) /\ Method(r) = "GET"
    /\ Cardinality(Created(r)) = 2
    /\ Cardinality(Deleted(r)) = 1
    /\ Cardinality(payload[r]) = 1

\* C6: served one at a time, a delete of an id that is in the table removes
\* the row with that id and no other, returns that row as {id, username},
\* and a delete of the same id that follows it at once ends with
\* 404 "User not found".
C6_DeleteExisting ==
  \A r \in Requests :
    (Done(r) /\ Method(r) = "DELETE" /\ req[r].user_id \in IdsOf(before[r]))
    => LET row == CHOOSE x \in before[r] : x.id = req[r].user_id
       IN /\ status[r] = 200
          /\ After(r) = before[r] \ {row}
          /\ payload[r] = {[id |-> row.id, username |-> row.username]}
          /\ \A s \in Requests :
               (s = r + 1 /\ Done(s) /\ Method(s) = "DELETE"
                  /\ req[s].user_id = req[r].user_id)
               => status[s] = 404 /\ detail[s] = "User not found"

C6_Witness ==
  \E r, s \in Requests :
    /\ s = r + 1 /\ Done(r) /\ Done(s)
    /\ Method(r) = "DELETE" /\ Method(s) = "DELETE"
    /\ req[s].user_id = req[r].user_id
    /\ Cardinality(before[r]) = 2
    /\ Cardinality(After(r)) = 1
    /\ status[r] = 200 /\ status[s] = 404

\* C7: served one at a time, a delete of an id that is not in the table ends
\* with 404 "User not found" and leaves the table as the request found it.
C7_DeleteMissing ==
  \A r \in Requests :
    (Done(r) /\ Method(r) = "DELETE" /\ req[r].user_id \notin IdsOf(before[r]))
    => /\ status[r] = 404
       /\ detail[r] = "User not found"
       /\ payload[r] = {}
       /\ After(r) = before[r]

C7_Witness ==
  \E r \in Requests :
    /\ Done(r) /\ Method(r) = "DELETE" /\ status[r] = 404
    /\ before[r] # {}
    /\ req[r].user_id \notin IdsOf(before[r])

\* C8: every request that was handed a session reaches the end of its scope
\* with the session closed, whatever its status (200, 400, 404, 422 or 500);
\* get_db's own commit has run exactly when the handler returned normally.
C8_SessionScope ==
  /\ [](\A r \in Requests :
          /\ Done(r) => (db[r] = "closed" /\ (committed[r] <=> status[r] = 200))
          /\ ~Done(r) => ~committed[r])
  /\ \A r \in Requests : (db[r] = "active") ~> (Done(r) /\ db[r] = "closed")

C8_Witness ==
  /\ \E r \in Requests : Done(r) /\ status[r] = 500 /\ db[r] = "closed" /\ ~committed[r]
  /\ \E r \in Requests : Done(r) /\ status[r] = 200 /\ db[r] = "closed" /\ committed[r]

\* C9: under every interleaving of the requests, no two rows of the table
\* have the same username.
C9_UsernameUnique ==
  \A x, y \in users : x.username = y.username => x = y

\* one create has inserted while another, past its check, is about to insert
C9_Witness ==
  \E r, s \in Requests :
    /\ r # s /\ IsCreate(r) /\ IsCreate(s)
    /\ req[r].body.username = req[s].body.username
    /\ pc[r] = "insert"
    /\ status[s] = 200
    /\ req[r].body.username \in UsernamesOf(users)

\* the creates of username u that passed the existence check and ran the insert
PastCheck(u) ==
  {r \in Requests : IsCreate(r) /\ req[r].body.username = u /\ status[r] \in {200, 500}}

\* no delete has removed a row
NoDelete == \A d \in Requests : Method(d) = "DELETE" => status[d] # 200

\* C10: of the creates of one username that all passed the existence check
\* (no delete removing a row meanwhile), exactly one inserts its
\* row; every other ends with an unhandled server error (500, not the 400
\* "Username already registered"), returns nothing, inserts no row, and its
\* session is closed.
C10_RaceLoserFails ==
  \A u \in Usernames :
    (NoDelete /\ PastCheck(u) # {})
    => /\ Cardinality({r \in PastCheck(u) : status[r] = 200}) = 1
       /\ Cardinality({x \in users : x.username = u}) = 1
       /\ \A r \in PastCheck(u) :
            status[r] = 500
            => /\ detail[r] # "Username already registered"
               /\ payload[r] = {}
               /\ db[r] = "closed"
               /\ ~committed[r]

C10_Witness ==
  \E r, s \in Requests :
    /\ r # s /\ Done(r) /\ Done(s)
    /\ IsCreate(r) /\ IsCreate(s)
    /\ req[r].body.username = req[s].body.username
    /\ status[r] = 200 /\ status[s] = 500
    /\ db[s] = "closed"
    /\ Cardinality(users) = 1
====
